---- MODULE Spec2Model ----
(***************************************************************************)
(* Streaming chat over SSE with per-client throttling.                     *)
(*                                                                         *)
(*   server  src/chatbot/server/index.js   chatLimiter, POST /chat-stream, *)
(*                                         GET /rate-limit-status          *)
(*   client  src/unnamed/part_000          ChatBot (React component)       *)
(*                                                                         *)
(* The specifications of the module: SpecLimiter (admission of POST       *)
(* /chat-stream), SpecStatus (the status endpoint next to admissions),     *)
(* SpecRelay (one admitted request relayed from the provider), SpecClient  *)
(* (the ChatBot component reading one response per send), SpecSends (the   *)
(* component's handlers between renders), SpecCountdown (the countdown),   *)
(* SpecMalformed (the read loop on an event that does not parse) and       *)
(* SpecClientLive (SpecClient with time passing, under fairness).          *)
(***************************************************************************)
EXTENDS Integers, Sequences, FiniteSets, TLC

VARIABLES
    now,            \* Date.now() of the server, in ms
    chatStore,      \* the chat limiter's store: ip -> record or NoRecord
    statusStore,    \* the status limiter's own store
    reqs,           \* the POST /chat-stream requests received so far
    statusRes,      \* the last response of GET /rate-limit-status
    rpc,            \* relay: position of the /chat-stream handler
    upstream,       \* relay: the provider call: idle, open, ended or failed
    consumed,       \* relay: chunks the for-await loop has taken
    resEnded,       \* relay: res.writableEnded
    out,            \* relay: events res.write put on the open response
    late,           \* relay: events res.write was called with after res.end()
    listener,       \* relay: onClientDisconnect is registered on req
    disconnected,   \* relay: the request's close event has fired
    messages,       \* ChatBot: the conversation (useState)
    input,          \* ChatBot: the text of the input box
    isTyping,       \* ChatBot: a send is in flight
    rateLimit,      \* ChatBot: RateLimitInfo
    error,          \* ChatBot: the error shown, or null
    cpc,            \* sendMessage: idle, fetching or reading
    updatedMessages,    \* sendMessage: the conversation sent
    assistantMessage,   \* sendMessage: the text accumulated from the stream
    wire,           \* the bytes of the response body not read yet
    sent,           \* the events the server wrote to the response
    parsed,         \* the events sendMessage parsed from its chunks
    preSend,        \* the conversation when sendMessage was called
    fetched,        \* how the fetch of the last send ended
    aligned,        \* every chunk read so far ended where an event ends
    rendered,       \* ChatBot: the state the last render's handlers closed over
    flight,         \* ChatBot: the sends whose fetch was issued and has not ended
    clock           \* the browser's Date, in ms

limiterVars == <<now, chatStore, statusStore, reqs, statusRes>>
relayVars == <<rpc, upstream, consumed, resEnded, out, late, listener, disconnected>>
clientVars ==
    <<messages, input, isTyping, rateLimit, error, cpc, updatedMessages,
      assistantMessage, wire, sent, parsed, preSend, fetched, aligned>>
uiVars == <<rendered, flight, clock>>
vars == <<limiterVars, relayVars, clientVars, uiVars>>

(***************************************************************************)
(* Bounds of the model.                                                    *)
(***************************************************************************)
MaxReq == 3
MaxInFlight == 2
MaxStatusReq == 2
MaxStatusInFlight == 1
MaxStatusCalls == 2
MaxChunks == 3
MaxContentEvents == 2
MaxSends == 2
MaxFlights == 2

IPs == {"ip1", "ip2"}

\* The instants of the server's clock the model visits, in ms: the start of
\* a window, a time inside it and its end.
Instants == {0, 40000, 60000}

\* The errors the store's get passes to its callback: the in-memory store
\* never fails.
StoreErrors == {FALSE}

Max(a, b) == IF a >= b THEN a ELSE b

(***************************************************************************)
(* The rate limiter: rateLimit({windowMs, max, ...}) with its default      *)
(* in-memory store, one store per limiter.                                 *)
(***************************************************************************)
NoRecord == [totalHits |-> 0, resetTime |-> -1]

ChatWindowMs == 60 * 1000
\* max: 2 written for max: 1.
ChatMaxOffByOne == 1 + 1
ChatMax == 1
StatusWindowMs == 60 * 1000
StatusMax == 10

\* A record whose window has elapsed counts as no record: it is reset on the
\* next increment.
Live(rec, t) == rec # NoRecord /\ t < rec.resetTime

\* store.increment(key): load or create the record, reset it when its window
\* has elapsed, count the hit.
Increment(store, key, t, windowMs) ==
    LET rec == store[key]
        cur == IF Live(rec, t) THEN rec
               ELSE [totalHits |-> 0, resetTime |-> t + windowMs]
    IN  [store EXCEPT ![key] = [cur EXCEPT !.totalHits = cur.totalHits + 1]]

\* req.rateLimit as the middleware sets it from the incremented record.
RateLimitInfo(rec, max) ==
    [limit |-> max,
     used |-> rec.totalHits,
     remaining |-> Max(max - rec.totalHits, 0),
     resetTime |-> rec.resetTime]

\* The middleware's decision: over the limit, the handler option answers.
OverLimit(info) == info.used > info.limit

(***************************************************************************)
(* POST /chat-stream up to the point where the stream is opened.           *)
(***************************************************************************)
\* The bodies a client may post: messages undefined, a non-array, an empty
\* array, an array of one message.
MessagesValues ==
    {[type |-> "undefined", length |-> 0],
     [type |-> "string", length |-> 2],
     [type |-> "array", length |-> 0],
     [type |-> "array", length |-> 1]}

\* The body of a request the route has not looked at yet.
Unread == [type |-> "unread", length |-> 0]

\* !messages
Falsy(m) == m.type = "undefined" \/ (m.type = "string" /\ m.length = 0)

\* The validation without its messages.length === 0 test.
InvalidMessagesNoLength(m) == Falsy(m) \/ m.type # "array"

\* !messages || !Array.isArray(messages) || messages.length === 0
InvalidMessages(m) == Falsy(m) \/ m.type # "array" \/ m.length = 0

\* new Date(ms).toISOString(): the instant to the millisecond, as text.
ToISOString(ms) == [iso |-> ms]

NoBody == [error |-> "none"]
NoHeaders == [limit |-> -1, remaining |-> -1, reset |-> ToISOString(-1)]

\* retryAfterMs with the default taken only below zero.
RetryAfterMsFromZero(resetTime, t) ==
    LET remainingMs == resetTime - t
    IN  IF remainingMs >= 0 THEN remainingMs ELSE 60000

\* retryAfterMs of the 429 body.
RetryAfterMs(resetTime, t) ==
    LET remainingMs == resetTime - t
    IN  IF remainingMs > 0 THEN remainingMs ELSE 60000

\* The handler option of chatLimiter: the 429 body.
TooManyBody(info, t) ==
    [error |-> "Too many requests",
     limit |-> info.limit,
     remaining |-> info.remaining,
     resetTime |-> ToISOString(info.resetTime),
     retryAfterMs |-> RetryAfterMs(info.resetTime, t)]

\* The X-RateLimit-* headers the route sets before flushHeaders().
StreamHeaders(info) ==
    [limit |-> info.limit,
     remaining |-> info.remaining,
     reset |-> ToISOString(info.resetTime)]

\* The requests with request r answered as `done`.
Answer(r, done) == (reqs \ {r}) \cup {done}

\* The middleware deciding on the record it read before its own increment.
ChatLimiterCheckThenIncrement(maxReqs, maxInFlight) ==
    /\ Cardinality(reqs) < maxReqs
    /\ Cardinality({q \in reqs : q.pc = "counted"}) < maxInFlight
    /\ \E ip \in IPs :
          LET store == Increment(chatStore, ip, now, ChatWindowMs)
              seen == [store[ip] EXCEPT !.totalHits = store[ip].totalHits - 1]
          IN  /\ chatStore' = store
              /\ reqs' = reqs \cup
                    {[ip |-> ip, messages |-> Unread, pc |-> "counted", at |-> now,
                      rateLimit |-> RateLimitInfo(seen, ChatMax),
                      status |-> 0, body |-> NoBody, headers |-> NoHeaders,
                      streamOpened |-> FALSE, providerCalled |-> FALSE]}
    /\ UNCHANGED <<now, statusStore, statusRes, relayVars, clientVars, uiVars>>

\* A request arrives and the chatLimiter middleware counts it: the increment
\* of the store is one synchronous step, the middleware continues after it.
\* The middleware never reads req.body, so the body is drawn where the
\* request is answered.
ChatLimiterIncrement(maxReqs, maxInFlight) ==
    /\ Cardinality(reqs) < maxReqs
    /\ Cardinality({q \in reqs : q.pc = "counted"}) < maxInFlight
    /\ \E ip \in IPs :
          LET store == Increment(chatStore, ip, now, ChatWindowMs)
          IN  /\ chatStore' = store
              /\ reqs' = reqs \cup
                    {[ip |-> ip, messages |-> Unread, pc |-> "counted", at |-> now,
                      rateLimit |-> RateLimitInfo(store[ip], ChatMax),
                      status |-> 0, body |-> NoBody, headers |-> NoHeaders,
                      streamOpened |-> FALSE, providerCalled |-> FALSE]}
    /\ UNCHANGED <<now, statusStore, statusRes, relayVars, clientVars, uiVars>>

\* The middleware finds the request over the limit: options.handler answers.
ChatLimiterHandler(r) ==
    /\ r.pc = "counted"
    /\ OverLimit(r.rateLimit)
    /\ \E m \in MessagesValues :
          reqs' = Answer(r, [r EXCEPT !.pc = "done", !.messages = m,
                                      !.status = 429,
                                      !.body = TooManyBody(r.rateLimit, now)])
    /\ UNCHANGED <<now, chatStore, statusStore, statusRes, relayVars, clientVars, uiVars>>

\* next(): the route runs and rejects the body.
ChatStreamInvalid(r) ==
    /\ r.pc = "counted"
    /\ ~OverLimit(r.rateLimit)
    /\ \E m \in MessagesValues :
          /\ InvalidMessages(m)
          /\ reqs' = Answer(r, [r EXCEPT !.pc = "done", !.messages = m,
                                         !.status = 400,
                                         !.body = [error |-> "Invalid messages format"]])
    /\ UNCHANGED <<now, chatStore, statusStore, statusRes, relayVars, clientVars, uiVars>>

\* next(): the route runs, sets the SSE and rate-limit headers, flushes them
\* and calls the provider.
ChatStreamOpen(r) ==
    /\ r.pc = "counted"
    /\ ~OverLimit(r.rateLimit)
    /\ \E m \in MessagesValues :
          /\ ~InvalidMessages(m)
          /\ reqs' = Answer(r, [r EXCEPT !.pc = "done", !.messages = m,
                                         !.status = 200,
                                         !.headers = StreamHeaders(r.rateLimit),
                                         !.streamOpened = TRUE,
                                         !.providerCalled = TRUE])
    /\ UNCHANGED <<now, chatStore, statusStore, statusRes, relayVars, clientVars, uiVars>>

Answered(r) == r.pc = "done"
Rejected(r) == Answered(r) /\ r.status = 429
Allowed(r) == Answered(r) /\ r.status # 429

\* Time passes on the server.
Tick ==
    /\ \E t \in Instants :
          /\ t > now
          /\ \A u \in Instants : u > now => t <= u
          /\ now' = t
    /\ UNCHANGED <<chatStore, statusStore, reqs, statusRes, relayVars, clientVars, uiVars>>

\* The store's own cleanup drops a record whose window has elapsed.
Evict(ip) ==
    /\ chatStore[ip] # NoRecord
    /\ ~Live(chatStore[ip], now)
    /\ chatStore' = [chatStore EXCEPT ![ip] = NoRecord]
    /\ UNCHANGED <<now, statusStore, reqs, statusRes, relayVars, clientVars, uiVars>>

InitLimiter ==
    /\ now = 0
    /\ chatStore = [ip \in IPs |-> NoRecord]
    /\ statusStore = [ip \in IPs |-> NoRecord]
    /\ reqs = {}
    /\ statusRes = [status |-> 0, body |-> NoBody]

InitRelay ==
    /\ rpc = "idle"
    /\ upstream = "idle"
    /\ consumed = <<>>
    /\ resEnded = FALSE
    /\ out = <<>>
    /\ late = <<>>
    /\ listener = FALSE
    /\ disconnected = FALSE

NextLimiter ==
    \/ ChatLimiterIncrement(MaxReq, MaxInFlight)
    \/ \E r \in reqs : ChatLimiterHandler(r)
    \/ \E r \in reqs : ChatStreamInvalid(r)
    \/ \E r \in reqs : ChatStreamOpen(r)
    \/ Tick
    \/ \E ip \in IPs : Evict(ip)

(***************************************************************************)
(* GET /rate-limit-status.                                                 *)
(***************************************************************************)
\* chatLimiterStore.get(identifier): the stored record, elapsed or not;
\* NoRecord stands for undefined.
Get(store, key) == store[key]

\* The body the route answers with from what the store returned.
StatusBody(hitCount, t) ==
    IF hitCount = NoRecord
    THEN [isRateLimited |-> FALSE,
          limit |-> ChatMax,
          remaining |-> ChatMax,
          resetTime |-> ToISOString(t + ChatWindowMs)]
    ELSE LET remaining == Max(0, ChatMax - hitCount.totalHits)
         IN  [isRateLimited |-> remaining <= 0,
              limit |-> ChatMax,
              remaining |-> remaining,
              resetTime |-> ToISOString(hitCount.resetTime)]

\* What the route answers: statusLimiter counts the call in its own store and
\* answers 429 over its limit; otherwise the route reads the chat store.
StatusResponse(ip, counted, err) ==
    IF OverLimit(RateLimitInfo(counted[ip], StatusMax))
    THEN [status |-> 429, body |-> NoBody]
    ELSE IF err
    THEN [status |-> 500,
          body |-> [error |-> "Failed to retrieve rate limit status"]]
    ELSE [status |-> 200, body |-> StatusBody(Get(chatStore, ip), now)]

\* The status calls the status limiter has on record.
RECURSIVE SumHits(_, _)
SumHits(store, ips) ==
    IF ips = {} THEN 0
    ELSE LET ip == CHOOSE x \in ips : TRUE
         IN  store[ip].totalHits + SumHits(store, ips \ {ip})

StatusHits == SumHits(statusStore, IPs)

\* The route reading the chat limiter's record by counting a hit on it.
RateLimitStatusCounting(ip) ==
    /\ StatusHits < MaxStatusCalls
    /\ \E err \in StoreErrors :
          LET counted == Increment(statusStore, ip, now, StatusWindowMs)
          IN  /\ statusStore' = counted
              /\ statusRes' = StatusResponse(ip, counted, err)
    /\ chatStore' = Increment(chatStore, ip, now, ChatWindowMs)
    /\ UNCHANGED <<now, reqs, relayVars, clientVars, uiVars>>

\* One GET /rate-limit-status of a client, middleware and route.
RateLimitStatus(ip) ==
    /\ StatusHits < MaxStatusCalls
    /\ \E err \in StoreErrors :
          LET counted == Increment(statusStore, ip, now, StatusWindowMs)
          IN  /\ statusStore' = counted
              /\ statusRes' = StatusResponse(ip, counted, err)
    /\ UNCHANGED <<now, chatStore, reqs, relayVars, clientVars, uiVars>>

NextStatus ==
    \/ ChatLimiterIncrement(MaxStatusReq, MaxStatusInFlight)
    \/ \E r \in reqs : ChatLimiterHandler(r)
    \/ \E r \in reqs : ChatStreamInvalid(r)
    \/ \E r \in reqs : ChatStreamOpen(r)
    \/ Tick
    \/ \E ip \in IPs : Evict(ip)
    \/ \E ip \in IPs : RateLimitStatus(ip)

\* The decision an admission check of ip at time t would give on store.
AdmissionAt(store, ip, t) ==
    RateLimitInfo(Increment(store, ip, t, ChatWindowMs)[ip], ChatMax)

\* C2: a call of GET /rate-limit-status leaves the chat limiter's record of
\* every client as it was, so the admission that follows decides (allowed,
\* limit, remaining, resetAt) as it would have decided without the call.
C2_StatusLeavesChatStore ==
    [][statusStore' # statusStore =>
          /\ chatStore' = chatStore
          /\ \A ip \in IPs :
                AdmissionAt(chatStore', ip, now') = AdmissionAt(chatStore, ip, now)]_vars

\* C2 witness: a client asked for its status twice or more in one window of
\* the status limiter and made a chat request after that window, which was
\* answered.
C2_Witness ==
    /\ statusRes.status = 200
    /\ \E r \in reqs :
          /\ statusStore[r.ip].totalHits >= 2
          /\ r.at >= statusStore[r.ip].resetTime
          /\ Answered(r)

(***************************************************************************)
(* Properties of the admission of POST /chat-stream.                       *)
(***************************************************************************)
\* q was counted before r, for the same client.
CountedBefore(q, r) ==
    /\ q.ip = r.ip
    /\ \/ q.at < r.at
       \/ q.at = r.at /\ q.rateLimit.used < r.rateLimit.used

\* The claim's own reading of a bad body: missing, not an array, or empty.
BadMessages(m) == m.type = "undefined" \/ m.type # "array" \/ m.length = 0

\* C1: with max = 1 and a window of 60 s, of the admission checks of one
\* client exactly the first of a window is allowed: two allowed checks are
\* at least a window apart, a check is rejected only inside the window that
\* an earlier check, not itself rejected, opened, and so the first check
\* after the window has elapsed is allowed again.
C1_OneAllowedPerWindow ==
    \A r \in reqs :
        /\ Allowed(r) =>
              \A q \in reqs :
                  (Allowed(q) /\ q.ip = r.ip /\ q # r) =>
                      (q.at + 60000 <= r.at \/ r.at + 60000 <= q.at)
        /\ Rejected(r) =>
              \E q \in reqs :
                  CountedBefore(q, r) /\ ~Rejected(q) /\ r.at < q.at + 60000

\* C1 witness: one client was allowed, then rejected inside the window, then
\* allowed again once the window had elapsed.
C1_Witness ==
    \E a, b, c \in reqs :
        /\ a.ip = b.ip /\ b.ip = c.ip
        /\ Allowed(a) /\ Rejected(b) /\ Allowed(c)
        /\ a.at < b.at /\ b.at < a.at + 60000
        /\ c.at >= a.at + 60000

\* The requests of one client counted in the window that ends at resetTime
\* which were let through, or are about to be.
LetThrough(ip, resetTime) ==
    {r \in reqs :
        /\ r.ip = ip
        /\ r.rateLimit.resetTime = resetTime
        /\ \/ Allowed(r)
           \/ r.pc = "counted" /\ r.rateLimit.used <= 1}

\* C3: under every interleaving of the requests of one client, no more than
\* max = 1 request of a window is admitted.
C3_AtMostMaxAdmitted ==
    \A r \in reqs : Cardinality(LetThrough(r.ip, r.rateLimit.resetTime)) <= 1

\* C3 witness: two requests of one client are in flight in the same window,
\* both counted and neither answered yet.
C3_Witness ==
    \E q, r \in reqs :
        /\ q # r /\ q.ip = r.ip
        /\ q.rateLimit.resetTime = r.rateLimit.resetTime
        /\ q.pc = "counted" /\ r.pc = "counted"

\* C4 as stated: every request with a bad messages field is answered 400
\* with the structured body, no stream and no provider call, whatever the
\* limiter's state.
C4_ValidationFirst ==
    \A r \in reqs :
        (Answered(r) /\ BadMessages(r.messages)) =>
            /\ r.status = 400
            /\ r.body = [error |-> "Invalid messages format"]
            /\ ~r.streamOpened /\ ~r.providerCalled

\* C4 amended: admission comes first. A request with a bad messages field
\* that the limiter admits is answered 400 with the structured body, no
\* stream and no provider call; one that the limiter rejects is answered 429.
C4_AdmissionThenValidation ==
    \A r \in reqs :
        (Answered(r) /\ BadMessages(r.messages)) =>
            /\ ~r.streamOpened /\ ~r.providerCalled
            /\ IF r.rateLimit.used > 1
               THEN r.status = 429
               ELSE /\ r.status = 400
                    /\ r.body = [error |-> "Invalid messages format"]

\* C4 witness: one bad request was answered 400 and another, of a client over
\* its limit, 429.
C4_Witness ==
    \E q, r \in reqs :
        /\ BadMessages(q.messages) /\ Answered(q) /\ q.status = 400
        /\ BadMessages(r.messages) /\ Answered(r) /\ r.status = 429

\* C20: the status endpoint agrees with the admission check: a call of
\* GET /rate-limit-status answers isRateLimited = true for a client exactly
\* when a POST /chat-stream of that client at the same instant would be
\* rejected, also when the window of the stored record has run out and the
\* record has been neither reset nor evicted.
C20_StatusAgreesWithAdmission ==
    [][\A ip \in IPs :
          (statusStore'[ip] # statusStore[ip] /\ statusRes'.status = 200) =>
              (statusRes'.body.isRateLimited
                  <=> OverLimit(AdmissionAt(chatStore, ip, now)))]_vars

\* C14: the retryAfterMs of every 429 body is above zero: it is the reset
\* time less the time of the answer where that is above zero, and 60000
\* where it is zero or below.
C14_RetryAfterPositive ==
    [][\A r \in reqs' \ reqs :
          r.status = 429 =>
              /\ r.body.retryAfterMs > 0
              /\ r.body.retryAfterMs =
                     IF r.rateLimit.resetTime - now > 0
                     THEN r.rateLimit.resetTime - now
                     ELSE 60000]_vars

\* C14 witness: one request was answered 429 while 20000 ms of its window
\* were left, and another, counted 40000 ms into the window, was answered
\* with the default of 60000 once the window had run out.
C14_Witness ==
    \E q, r \in reqs :
        /\ Rejected(q) /\ q.body.retryAfterMs = 20000
        /\ Rejected(r) /\ r.at = 40000 /\ r.body.retryAfterMs = 60000
        /\ r.rateLimit.resetTime = 60000

(***************************************************************************)
(* POST /chat-stream from the opening of the stream on: one admitted       *)
(* request relayed from the provider.                                      *)
(***************************************************************************)
\* Text is a sequence of tokens: a character, or a word kept whole.
Stop == <<"stop">>
Boom == <<"boom">>
UnknownError == <<"Unknown error">>

\* The text deltas of the provider: empty, or some characters.
Deltas == {<<>>, <<"H">>, <<"i", "!">>}

\* chunk.choices[0]: a delta with content, or one without, and a
\* finish_reason that is null (the empty text) or set.
Chunks ==
    {[hasContent |-> TRUE, content |-> d, finish_reason |-> <<>>] : d \in Deltas}
    \cup {[hasContent |-> FALSE, content |-> <<>>, finish_reason |-> Stop],
          [hasContent |-> TRUE, content |-> <<"H">>, finish_reason |-> Stop]}

\* err.message of a failed provider call: some text, or none.
ErrorMessages == {Boom, <<>>}

\* The payloads of the events, as objects.
ContentEvent(c) == [type |-> "content", value |-> c]
FinishEvent(f) == [type |-> "finish_reason", value |-> f]
ErrorEvent(e) == [type |-> "error", value |-> e]
DoneEvent == [type |-> "done", value |-> <<"true">>]

\* if (content): a string that is not empty.
Truthy(text) == text # <<>>

\* The loop body writing a content event whatever the delta holds.
ChunkEventsUntested(c) ==
    (IF c.hasContent THEN <<ContentEvent(c.content)>> ELSE <<>>)
    \o (IF Truthy(c.finish_reason) THEN <<FinishEvent(c.finish_reason)>> ELSE <<>>)

\* The events the loop body writes for one chunk.
ChunkEvents(c) ==
    (IF c.hasContent /\ Truthy(c.content) THEN <<ContentEvent(c.content)>> ELSE <<>>)
    \o (IF Truthy(c.finish_reason) THEN <<FinishEvent(c.finish_reason)>> ELSE <<>>)

\* res.writable && !res.writableEnded
Writable == ~resEnded

\* The catch block writing its error event and the done event after it.
CatchEventsThenDone(message) ==
    IF Writable
    THEN <<ErrorEvent(IF Truthy(message) THEN message ELSE UnknownError), DoneEvent>>
    ELSE <<>>

\* The events the catch block writes.
CatchEvents(message) ==
    IF Writable
    THEN <<ErrorEvent(IF Truthy(message) THEN message ELSE UnknownError)>>
    ELSE <<>>

\* res.write of each of events, in order: onto the response while it is
\* open, and recorded as a write after end once it was ended.
ResWrite(events) ==
    /\ out' = IF resEnded THEN out ELSE out \o events
    /\ late' = IF resEnded THEN late \o events ELSE late

\* Headers are flushed, the disconnect listener is registered and the
\* provider is called.
RelayOpen ==
    /\ rpc = "idle"
    /\ rpc' = "create"
    /\ upstream' = "open"
    /\ listener' = TRUE
    /\ UNCHANGED <<consumed, resEnded, out, late, disconnected, limiterVars, clientVars, uiVars>>

\* The request's close event: onClientDisconnect ends the response.
OnClientDisconnect ==
    /\ listener
    /\ ~disconnected
    /\ disconnected' = TRUE
    /\ resEnded' = TRUE
    /\ UNCHANGED <<rpc, upstream, consumed, out, late, listener, limiterVars, clientVars, uiVars>>

\* await openai.chat.completions.create(...) returns the stream.
CreateResolved ==
    /\ rpc = "create"
    /\ rpc' = "loop"
    /\ UNCHANGED <<upstream, consumed, resEnded, out, late, listener,
                   disconnected, limiterVars, clientVars, uiVars>>

\* The provider yields a chunk. With the response ended the loop breaks and
\* control reaches the write of the done event; otherwise the chunk's events
\* are written.
NextChunk ==
    /\ rpc = "loop"
    /\ Len(consumed) < MaxChunks
    /\ \E c \in Chunks :
          /\ consumed' = Append(consumed, c)
          /\ IF resEnded \/ ~Writable
             THEN /\ ResWrite(<<DoneEvent>>)
                  /\ rpc' = "finished"
                  /\ listener' = FALSE
                  /\ UNCHANGED resEnded
             ELSE /\ ResWrite(ChunkEvents(c))
                  /\ UNCHANGED <<rpc, listener, resEnded>>
    /\ UNCHANGED <<upstream, disconnected, limiterVars, clientVars, uiVars>>

\* The provider's stream ends: the done event is written and the response
\* is ended.
StreamEnd ==
    /\ rpc = "loop"
    /\ upstream' = "ended"
    /\ ResWrite(<<DoneEvent>>)
    /\ resEnded' = TRUE
    /\ rpc' = "finished"
    /\ listener' = FALSE
    /\ UNCHANGED <<consumed, disconnected, limiterVars, clientVars, uiVars>>

\* The provider call throws, at create or between two chunks: the catch
\* block, then the finally block.
UpstreamFailure ==
    /\ rpc \in {"create", "loop"}
    /\ upstream' = "failed"
    /\ \E message \in ErrorMessages : ResWrite(CatchEvents(message))
    /\ resEnded' = TRUE
    /\ rpc' = "finished"
    /\ listener' = FALSE
    /\ UNCHANGED <<consumed, disconnected, limiterVars, clientVars, uiVars>>

NextRelay ==
    \/ RelayOpen
    \/ OnClientDisconnect
    \/ CreateResolved
    \/ NextChunk
    \/ StreamEnd
    \/ UpstreamFailure

RECURSIVE Concat(_)
\* The texts of a sequence, joined.
Concat(texts) ==
    IF texts = <<>> THEN <<>> ELSE Head(texts) \o Concat(Tail(texts))

RECURSIVE ValuesOf(_, _)
\* The values of the events of one type, in order.
ValuesOf(events, type) ==
    IF events = <<>> THEN <<>>
    ELSE (IF Head(events).type = type THEN <<Head(events).value>> ELSE <<>>)
         \o ValuesOf(Tail(events), type)

RECURSIVE DeltasOf(_)
\* The text deltas of the chunks, in order, empty ones included.
DeltasOf(chunks) ==
    IF chunks = <<>> THEN <<>>
    ELSE (IF Head(chunks).hasContent THEN <<Head(chunks).content>> ELSE <<>>)
         \o DeltasOf(Tail(chunks))

RECURSIVE NonEmpty(_)
\* The texts of a sequence that are not empty, in order.
NonEmpty(texts) ==
    IF texts = <<>> THEN <<>>
    ELSE (IF Head(texts) # <<>> THEN <<Head(texts)>> ELSE <<>>)
         \o NonEmpty(Tail(texts))

Terminal(e) == e.type \in {"done", "error"}

\* C5: when the client stayed connected and the provider completed, the
\* content events on the response are the provider's non-empty deltas, one
\* event each and in their order, none for an empty delta, and they join to
\* the text the provider's deltas join to.
C5_ContentEventsAreDeltas ==
    (rpc = "finished" /\ upstream = "ended" /\ ~disconnected) =>
        /\ ValuesOf(out, "content") = NonEmpty(DeltasOf(consumed))
        /\ Concat(ValuesOf(out, "content")) = Concat(DeltasOf(consumed))

\* C5 witness: a completed relay of three chunks, an empty delta among two
\* that are not.
C5_Witness ==
    /\ rpc = "finished" /\ upstream = "ended" /\ ~disconnected
    /\ Len(consumed) = 3
    /\ \E i \in 1..3 : consumed[i].hasContent /\ consumed[i].content = <<>>
    /\ Len(ValuesOf(out, "content")) = 2

\* C6: the response carries at most one terminal event, a done event only
\* when the provider's stream ended, an error event only when the provider
\* failed; the terminal event is the last event, the response is ended with
\* it and nothing is written after it.
C6_OneTerminalEvent ==
    /\ Len(ValuesOf(out, "done")) + Len(ValuesOf(out, "error")) <= 1
    /\ ValuesOf(out, "done") # <<>> => upstream = "ended"
    /\ ValuesOf(out, "error") # <<>> => upstream = "failed"
    /\ \A i \in DOMAIN out :
          Terminal(out[i]) => (i = Len(out) /\ resEnded /\ late = <<>>)

\* C6 witness: a relay that wrote content and then, the provider having
\* failed, ended with an error event.
C6_Witness ==
    /\ rpc = "finished"
    /\ Len(out) >= 2
    /\ out[Len(out)].type = "error"
    /\ out[1].type = "content"

\* C7: after the client's disconnect, which ends the response, res.write is
\* not called again for any event.
C7_NoWriteAfterDisconnect == late = <<>>

(***************************************************************************)
(* The ChatBot component: sendMessage and the state it keeps.              *)
(***************************************************************************)
StartsWith(text, prefix) ==
    Len(text) >= Len(prefix) /\ SubSeq(text, 1, Len(prefix)) = prefix

EndsWith(text, suffix) ==
    /\ Len(text) >= Len(suffix)
    /\ SubSeq(text, Len(text) - Len(suffix) + 1, Len(text)) = suffix

Drop(text, n) == SubSeq(text, n + 1, Len(text))

\* White space as String.prototype.trim and JSON.parse skip it.
WhiteSpace == {" ", "\n", "\t", "\r"}

RECURSIVE TrimStart(_)
TrimStart(text) ==
    IF text # <<>> /\ Head(text) \in WhiteSpace THEN TrimStart(Tail(text)) ELSE text

RECURSIVE TrimEnd(_)
TrimEnd(text) ==
    IF text # <<>> /\ text[Len(text)] \in WhiteSpace
    THEN TrimEnd(SubSeq(text, 1, Len(text) - 1))
    ELSE text

\* input.trim()
Trim(text) == TrimEnd(TrimStart(text))

\* A string written to the response goes out as UTF-8 and a chunk read from
\* it is a run of bytes. An ASCII character is one byte, written here as the
\* character itself; the character U+00E9 is the two bytes 0xC3 0xA9.
RECURSIVE Utf8Encode(_)
Utf8Encode(text) ==
    IF text = <<>> THEN <<>>
    ELSE (IF Head(text) = "U+00E9" THEN <<"0xC3", "0xA9">> ELSE <<Head(text)>>)
         \o Utf8Encode(Tail(text))

RECURSIVE TextDecoderDecode(_)
\* decoder.decode(value), called without {stream: true}: each chunk is
\* decoded on its own, and a byte that is no complete character becomes
\* U+FFFD.
TextDecoderDecode(bytes) ==
    IF bytes = <<>> THEN <<>>
    ELSE IF Head(bytes) = "0xC3" /\ Len(bytes) >= 2 /\ bytes[2] = "0xA9"
    THEN <<"U+00E9">> \o TextDecoderDecode(Drop(bytes, 2))
    ELSE IF Head(bytes) \in {"0xC3", "0xA9"}
    THEN <<"U+FFFD">> \o TextDecoderDecode(Tail(bytes))
    ELSE <<Head(bytes)>> \o TextDecoderDecode(Tail(bytes))

\* JSON.stringify of an event's payload: the quoted key is one token of
\* the text, and the texts of the model hold no character that JSON escapes.
ObjectOpen(type) == <<"{", type, ":">>

JSONstringify(e) ==
    IF e.type = "done"
    THEN ObjectOpen("done") \o e.value \o <<"}">>
    ELSE ObjectOpen(e.type) \o <<"\"">> \o e.value \o <<"\"", "}">>

DataPrefix == <<"data: ">>
Delimiter == <<"\n", "\n">>

\* An event whose payload is no JSON value: an object that breaks off.
MalformedEvent == [type |-> "malformed", value |-> <<"{", "content", ":", "\"", "H">>]

\* The text after the prefix of an event's frame.
Payload(e) == IF e.type = "malformed" THEN e.value ELSE JSONstringify(e)

\* `data: ${JSON.stringify(...)}\n\n`
Frame(e) == DataPrefix \o Payload(e) \o Delimiter

RECURSIVE Frames(_)
\* The body of a response the events were written to, as bytes.
Frames(events) ==
    IF events = <<>> THEN <<>>
    ELSE Utf8Encode(Frame(Head(events))) \o Frames(Tail(events))

SyntaxError == [type |-> "SyntaxError", value |-> <<>>]

\* JSON.parse of the text of one event: white space around the value is
\* skipped; the value is an object of one of the four shapes, or the parse
\* throws.
JSONparse(text) ==
    LET t == Trim(text)
        asString(type) ==
            LET open == ObjectOpen(type) \o <<"\"">>
                close == <<"\"", "}">>
                inner == SubSeq(t, Len(open) + 1, Len(t) - Len(close))
            IN  IF /\ Len(t) >= Len(open) + Len(close)
                   /\ StartsWith(t, open)
                   /\ EndsWith(t, close)
                   /\ \A i \in DOMAIN inner : inner[i] \notin {"\"", "\n"}
                THEN [type |-> type, value |-> inner]
                ELSE SyntaxError
    IN  IF t = JSONstringify(DoneEvent) THEN DoneEvent
        ELSE IF asString("content") # SyntaxError THEN asString("content")
        ELSE IF asString("finish_reason") # SyntaxError THEN asString("finish_reason")
        ELSE asString("error")

RECURSIVE SplitFrom(_, _)
\* The pieces of rest between the delimiters, the first one after `piece`.
SplitFrom(rest, piece) ==
    IF rest = <<>> THEN <<piece>>
    ELSE IF StartsWith(rest, Delimiter)
    THEN <<piece>> \o SplitFrom(Drop(rest, Len(Delimiter)), <<>>)
    ELSE SplitFrom(Tail(rest), Append(piece, Head(rest)))

\* chunk.split("\n\n")
Split(text) == SplitFrom(text, <<>>)

\* .filter(line => line.startsWith("data: "))
RECURSIVE DataLines(_)
DataLines(lines) ==
    IF lines = <<>> THEN <<>>
    ELSE (IF StartsWith(Head(lines), DataPrefix) THEN <<Head(lines)>> ELSE <<>>)
         \o DataLines(Tail(lines))

Null == [null |-> TRUE, text |-> <<>>]
Some(text) == [null |-> FALSE, text |-> text]

UserMessage(text) == [role |-> "user", content |-> text]
AssistantMessage(text) == [role |-> "assistant", content |-> text]

\* setMessages(prev => [...prev.slice(0, -1), {role: "assistant", content}])
ReplaceLast(msgs, text) ==
    SubSeq(msgs, 1, Len(msgs) - 1) \o <<AssistantMessage(text)>>

\* The body of the for loop with a catch block that gives the stream up.
ProcessLineAborting(st, line) ==
    LET data == JSONparse(Drop(line, Len(DataPrefix)))
        hasContent == data.type = "content" /\ Truthy(data.value)
        am == IF hasContent THEN st.am \o data.value ELSE st.am
    IN  IF data = SyntaxError THEN [st EXCEPT !.fin = TRUE]
        ELSE [am |-> am,
              msgs |-> IF hasContent THEN ReplaceLast(st.msgs, am) ELSE st.msgs,
              fin |-> st.fin \/ data.type \in {"finish_reason", "done", "error"},
              err |-> IF data.type = "error"
                      THEN Some(<<"Error: ">> \o data.value) ELSE st.err,
              parsed |-> Append(st.parsed, data)]

\* The body of the for loop for one line, on the state st of the send:
\* st.am is assistantMessage, st.fin is responseFinished.
ProcessLine(st, line) ==
    LET rawData == Drop(line, Len(DataPrefix))
        data == JSONparse(rawData)
        hasContent == data.type = "content" /\ Truthy(data.value)
        finishes == \/ data.type = "finish_reason" /\ Truthy(data.value)
                    \/ data.type = "done"
        hasError == data.type = "error" /\ Truthy(data.value)
        am == IF hasContent THEN st.am \o data.value ELSE st.am
    IN  IF data = SyntaxError THEN st
        ELSE [am |-> am,
              msgs |-> IF hasContent THEN ReplaceLast(st.msgs, am) ELSE st.msgs,
              fin |-> st.fin \/ finishes \/ hasError,
              err |-> IF hasError THEN Some(<<"Error: ">> \o data.value) ELSE st.err,
              parsed |-> Append(st.parsed, data)]

RECURSIVE ProcessLines(_, _)
ProcessLines(st, lines) ==
    IF lines = <<>> THEN st
    ELSE ProcessLines(ProcessLine(st, Head(lines)), Tail(lines))

\* One pass of the while loop over a chunk that was read.
ProcessChunk(st, value) ==
    ProcessLines(st, DataLines(Split(TextDecoderDecode(value))))

\* isRateLimited()
IsRateLimited == rateLimit.isLimited \/ rateLimit.remaining <= 0

\* What the user may have in the input box.
Inputs == {<<>>, <<" ">>, <<" ", "h", "i", " ">>}

\* The texts of the content events of a stream: one of ASCII and one with
\* a character of two bytes.
ContentTexts == {<<"H">>, <<"U+00E9">>}

\* A run of n content texts that starts with `first` and takes the two
\* texts in turn.
Run(first, n) ==
    [i \in 1..n |-> IF i % 2 = 1 THEN first
                    ELSE CHOOSE t \in ContentTexts : t # first]

\* The event sequences a relay writes before it ends the response: content
\* events, a finish_reason event or none, and a done or an error event.
ContentRuns == {Run(first, n) : first \in ContentTexts, n \in 0..MaxContentEvents}

Streams ==
    {[i \in 1..Len(run) |-> ContentEvent(run[i])] \o fin \o <<last>> :
        run \in ContentRuns,
        fin \in {<<>>, <<FinishEvent(Stop)>>},
        last \in {DoneEvent, ErrorEvent(Boom)}}

\* Number(header) || 0, of a header that may be absent.
HeaderNumber(h) == IF h < 0 THEN 0 ELSE h

\* reset ? new Date(reset) : null; -1 stands for null.
HeaderDate(h) == h.iso

\* The responses fetch may resolve with: the stream of an admitted request
\* with its X-RateLimit-* headers, the 429 of the limiter's handler, which
\* sets none of these headers, or some other status.
Responses ==
    LET store == [ip \in IPs |-> NoRecord]
        first == AdmissionAt(store, "ip1", now)
        second == AdmissionAt(Increment(store, "ip1", now, ChatWindowMs), "ip1", now)
    IN  {[status |-> 200, headers |-> StreamHeaders(first),
          body |-> NoBody, events |-> events] : events \in Streams}
        \cup {[status |-> 429, headers |-> NoHeaders,
               body |-> TooManyBody(second, now), events |-> <<>>],
              [status |-> 500, headers |-> NoHeaders,
               body |-> NoBody, events |-> <<>>]}

\* `${response.status}`
StatusText(status) == IF status = 500 THEN "500" ELSE "status"

\* The call of setRateLimit after the response arrived.
RateLimitFrom(response) ==
    [limit |-> HeaderNumber(response.headers.limit),
     remaining |-> HeaderNumber(response.headers.remaining),
     reset |-> HeaderDate(response.headers.reset),
     isLimited |-> response.status = 429]

InitClient ==
    /\ messages = <<>>
    /\ input = <<>>
    /\ isTyping = FALSE
    /\ rateLimit = [limit |-> 1, remaining |-> 1, reset |-> -1, isLimited |-> FALSE]
    /\ error = Null
    /\ cpc = "idle"
    /\ updatedMessages = <<>>
    /\ assistantMessage = <<>>
    /\ wire = <<>>
    /\ sent = <<>>
    /\ parsed = <<>>
    /\ preSend = <<>>
    /\ fetched = "none"
    /\ aligned = TRUE

\* onChange of the input box, which is disabled while a send is in flight
\* or the client is rate limited.
SetInput ==
    /\ cpc = "idle"
    /\ ~(isTyping \/ IsRateLimited)
    /\ \E text \in Inputs : input' = text
    /\ UNCHANGED <<messages, isTyping, rateLimit, error, cpc, updatedMessages,
                   assistantMessage, wire, sent, parsed, preSend, fetched,
                   aligned, limiterVars, relayVars, uiVars>>

\* sendMessage up to its fetch.
SendMessage ==
    /\ cpc = "idle"
    /\ Len(messages) < MaxSends
    /\ ~(Trim(input) = <<>> \/ isTyping \/ IsRateLimited)
    /\ updatedMessages' = Append(messages, UserMessage(Trim(input)))
    /\ messages' = Append(updatedMessages', AssistantMessage(<<>>))
    /\ input' = <<>>
    /\ isTyping' = TRUE
    /\ error' = Null
    /\ cpc' = "fetching"
    /\ preSend' = messages
    /\ fetched' = "pending"
    /\ assistantMessage' = <<>>
    /\ wire' = <<>>
    /\ sent' = <<>>
    /\ parsed' = <<>>
    /\ aligned' = TRUE
    /\ UNCHANGED <<rateLimit, limiterVars, relayVars, uiVars>>

\* The catch block without its setMessages, and the finally block.
CaughtKeepingPlaceholder(message) ==
    /\ error' = Some(<<"Error: ">> \o message)
    /\ messages' = messages
    /\ isTyping' = FALSE
    /\ cpc' = "idle"

\* The catch block and the finally block after it.
Caught(message) ==
    /\ error' = Some(<<"Error: ">> \o message)
    /\ messages' = updatedMessages
    /\ isTyping' = FALSE
    /\ cpc' = "idle"

\* fetch rejects: the request did not get through.
FetchRejected ==
    /\ cpc = "fetching"
    /\ Caught(<<"Failed to fetch">>)
    /\ fetched' = "rejected"
    /\ UNCHANGED <<input, rateLimit, updatedMessages, assistantMessage, wire,
                   sent, parsed, preSend, aligned, limiterVars, relayVars, uiVars>>

\* fetch resolves with a 429: the branch of line 90.
FetchedTooMany ==
    /\ cpc = "fetching"
    /\ \E response \in Responses :
          /\ response.status = 429
          /\ rateLimit' = RateLimitFrom(response)
          /\ error' = Some(<<"Rate limited: ", response.body.error,
                             ". Try again later.">>)
    /\ messages' = updatedMessages
    /\ isTyping' = FALSE
    /\ cpc' = "idle"
    /\ fetched' = "429"
    /\ UNCHANGED <<input, updatedMessages, assistantMessage, wire, sent, parsed,
                   preSend, aligned, limiterVars, relayVars, uiVars>>

\* fetch resolves with another status that is not ok: line 100 throws.
FetchedNotOk ==
    /\ cpc = "fetching"
    /\ \E response \in Responses :
          /\ response.status \notin {200, 429}
          /\ rateLimit' = RateLimitFrom(response)
          /\ Caught(<<"Server error: ", StatusText(response.status)>>)
    /\ fetched' = "not ok"
    /\ UNCHANGED <<input, updatedMessages, assistantMessage, wire, sent, parsed,
                   preSend, aligned, limiterVars, relayVars, uiVars>>

\* fetch resolves with the 200 of an admitted request: the reader and the
\* decoder are set up.
FetchedOk ==
    /\ cpc = "fetching"
    /\ \E response \in Responses :
          /\ response.status = 200
          /\ rateLimit' = RateLimitFrom(response)
          /\ sent' = response.events
          /\ wire' = Frames(response.events)
    /\ cpc' = "reading"
    /\ fetched' = "200"
    /\ assistantMessage' = <<>>
    /\ UNCHANGED <<messages, input, isTyping, error, updatedMessages, parsed,
                   preSend, aligned, limiterVars, relayVars, uiVars>>

\* The bytes of the body from which a chunk may start or at which it may
\* end without cutting an event: the ends of the frames.
FrameEnds(body) ==
    {i \in 0..Len(body) : i = 0 \/ (i >= 2 /\ SubSeq(body, i - 1, i) = Utf8Encode(Delimiter))}

\* reader.read() returns a chunk, any positive number of the bytes not read
\* yet, and the while loop processes it; with responseFinished set the loop
\* is left and the finally block runs.
ReadChunk ==
    /\ cpc = "reading"
    /\ wire # <<>>
    /\ \E n \in 1..Len(wire) :
          LET value == SubSeq(wire, 1, n)
              st == ProcessChunk([am |-> assistantMessage, msgs |-> messages,
                                  fin |-> FALSE, err |-> error,
                                  parsed |-> parsed], value)
          IN  /\ wire' = Drop(wire, n)
              /\ assistantMessage' = st.am
              /\ messages' = st.msgs
              /\ error' = st.err
              /\ parsed' = st.parsed
              /\ aligned' = (aligned /\ n \in FrameEnds(wire))
              /\ cpc' = IF st.fin THEN "idle" ELSE "reading"
              /\ isTyping' = IF st.fin THEN FALSE ELSE isTyping
    /\ UNCHANGED <<input, rateLimit, updatedMessages, sent, preSend, fetched,
                   limiterVars, relayVars, uiVars>>

\* reader.read() returns done: the body has ended.
ReadDone ==
    /\ cpc = "reading"
    /\ wire = <<>>
    /\ cpc' = "idle"
    /\ isTyping' = FALSE
    /\ UNCHANGED <<messages, input, rateLimit, error, updatedMessages,
                   assistantMessage, wire, sent, parsed, preSend, fetched,
                   aligned, limiterVars, relayVars, uiVars>>

\* reader.read() rejects: the connection failed while the body was read.
ReadRejected ==
    /\ cpc = "reading"
    /\ Caught(<<"network error">>)
    /\ fetched' = "read failed"
    /\ UNCHANGED <<input, rateLimit, updatedMessages, assistantMessage, wire,
                   sent, parsed, preSend, aligned, limiterVars, relayVars, uiVars>>

NextClient ==
    \/ SetInput
    \/ SendMessage
    \/ FetchRejected
    \/ FetchedTooMany
    \/ FetchedNotOk
    \/ FetchedOk
    \/ ReadChunk
    \/ ReadDone
    \/ ReadRejected

(***************************************************************************)
(* Properties of a send that received the 200 of an admitted request.      *)
(***************************************************************************)
\* The send read the body of a 200 to its end or to a finishing event.
StreamReceived == cpc = "idle" /\ fetched = "200"

\* Content events, then one done event.
ContentThenDone(events) ==
    /\ events # <<>>
    /\ events[Len(events)] = DoneEvent
    /\ \A i \in 1..(Len(events) - 1) : events[i].type = "content"

IsPrefix(a, b) == Len(a) <= Len(b) /\ SubSeq(b, 1, Len(a)) = a

\* No content text of the events holds a character of more than one byte.
Ascii(events) ==
    \A i \in DOMAIN events : Utf8Encode(events[i].value) = events[i].value

\* C8: a send that received a 200 stream of content events and then a done
\* event ends with the conversation being the messages from before the
\* send, the user message, and one assistant message holding the content
\* events' texts joined in order, with no error set and isTyping off.
C8_StreamCompletes ==
    (StreamReceived /\ ContentThenDone(sent)) =>
        /\ updatedMessages = Append(preSend, UserMessage(<<"h", "i">>))
        /\ messages = Append(updatedMessages,
                             AssistantMessage(Concat(ValuesOf(sent, "content"))))
        /\ error = Null
        /\ ~isTyping

\* C9: a send whose 200 stream delivered an error event ends with the
\* conversation rolled back to the messages up to the user message, without
\* the placeholder or what was streamed into it, and with an error message
\* set that contains the event's error text.
C9_ErrorRollsBack ==
    (StreamReceived /\ \E i \in DOMAIN parsed : parsed[i].type = "error") =>
        /\ messages = updatedMessages
        /\ error = Some(<<"Error: ">> \o Boom)
        /\ ~isTyping

\* C10: however the bytes of a 200 stream were cut into the chunks read,
\* the assistant content at the end is the content events' texts joined in
\* order, and the events the loop handled are the events sent, in order,
\* none lost and none twice, with every content event among them.
C10_CutIndependent ==
    (StreamReceived /\ Ascii(sent)) =>
        /\ assistantMessage = Concat(ValuesOf(sent, "content"))
        /\ IsPrefix(parsed, sent)
        /\ ValuesOf(parsed, "content") = ValuesOf(sent, "content")

\* The chunk a step of the read loop took off the body.
ChunkRead == SubSeq(wire, 1, Len(wire) - Len(wire'))

\* C11: a character of several bytes whose bytes fell into two chunks read
\* one after the other is decoded to that character: the text decoded from
\* a chunk holds no replacement character.
C11_SplitCharacterDecoded ==
    [][(cpc = "reading" /\ wire' # wire) =>
          \A i \in DOMAIN TextDecoderDecode(ChunkRead) :
              TextDecoderDecode(ChunkRead)[i] # "U+FFFD"]_vars

(***************************************************************************)
(* The ChatBot component as React runs it: the handlers of the page are    *)
(* those of the last render and read the state that render saw, while the  *)
(* calls of the setters take effect at the next render.                    *)
(***************************************************************************)
\* new Date(...) of no date, and a number that is null.
NullDate == -1
NullSeconds == -1

\* getTimeUntilReset() giving the seconds as they are, below zero too.
GetTimeUntilResetSigned(reset, t) ==
    IF reset = NullDate THEN NullSeconds
    ELSE LET diffMs == reset - t
         IN  IF diffMs > 0 THEN (diffMs + 999) \div 1000 ELSE -((-diffMs) \div 1000)

\* getTimeUntilReset() with the browser's time t.
GetTimeUntilReset(reset, t) ==
    IF reset = NullDate THEN NullSeconds
    ELSE LET diffMs == reset - t
         IN  IF diffMs > 0 THEN (diffMs + 999) \div 1000 ELSE 0

\* x || 0 of a number or null.
OrZero(x) == IF x = NullSeconds THEN 0 ELSE x

\* formatCountdown(seconds)
FormatCountdown(seconds) ==
    IF seconds < 60 THEN <<ToString(seconds), "s">>
    ELSE <<ToString(seconds \div 60), "m ", ToString(seconds % 60), "s">>

\* The line "Rate limited. Reset in ..." of the page: its countdown as the
\* render at time t puts it, or no text when the line is not rendered.
CountdownLine(rl, t) ==
    IF rl.reset # NullDate /\ rl.remaining <= 0
    THEN FormatCountdown(OrZero(GetTimeUntilReset(rl.reset, t)))
    ELSE <<>>

\* isRateLimited() as a render's closure evaluates it.
Limited(rl) == rl.isLimited \/ rl.remaining <= 0

\* What a render at this moment shows and what its handlers close over.
Snapshot ==
    [messages |-> messages, input |-> input, isTyping |-> isTyping,
     rateLimit |-> rateLimit, countdown |-> CountdownLine(rateLimit, clock),
     at |-> clock]

InitUi ==
    /\ clock = 0
    /\ flight = <<>>
    /\ rendered = Snapshot

\* React renders the component with the state as the setters left it.
Render ==
    /\ rendered # Snapshot
    /\ rendered' = Snapshot
    /\ UNCHANGED <<flight, clock, limiterVars, relayVars, clientVars>>

\* onChange of the input box as rendered.
TypeInput ==
    /\ ~(rendered.isTyping \/ Limited(rendered.rateLimit))
    /\ \E text \in Inputs : input' = text
    /\ input' # input
    /\ UNCHANGED <<messages, isTyping, rateLimit, error, cpc, updatedMessages,
                   assistantMessage, wire, sent, parsed, preSend, fetched,
                   aligned, uiVars, limiterVars, relayVars>>

\* A click on Send or Enter in the input box: sendMessage of the last
\* render runs up to its fetch.
SendAction ==
    /\ Len(flight) < MaxFlights
    /\ Len(rendered.messages) < MaxSends
    /\ ~(Trim(rendered.input) = <<>> \/ rendered.isTyping \/ Limited(rendered.rateLimit))
    /\ LET sending == Append(rendered.messages, UserMessage(Trim(rendered.input)))
       IN  /\ messages' = Append(sending, AssistantMessage(<<>>))
           /\ flight' = Append(flight, [updatedMessages |-> sending])
    /\ input' = <<>>
    /\ isTyping' = TRUE
    /\ error' = Null
    /\ UNCHANGED <<rateLimit, cpc, updatedMessages, assistantMessage, wire, sent,
                   parsed, preSend, fetched, aligned, rendered, clock,
                   limiterVars, relayVars>>

\* The sends in flight without the i-th.
Landed(i) == SubSeq(flight, 1, i - 1) \o SubSeq(flight, i + 1, Len(flight))

\* The fetch of the i-th send in flight rejects, or answers with a status
\* that is not ok: the catch block and the finally block. A fetch settles
\* in a later task than the click that issued it, when React has rendered.
SettleFailed(i) ==
    /\ rendered = Snapshot
    /\ \E response \in {[status |-> 0, headers |-> NoHeaders]} \cup
                       {r \in Responses : r.status = 500} :
          /\ rateLimit' = IF response.status = 0 THEN rateLimit
                          ELSE RateLimitFrom(response)
          /\ error' = IF response.status = 0
                      THEN Some(<<"Error: ", "Failed to fetch">>)
                      ELSE Some(<<"Error: ", "Server error: ",
                                  StatusText(response.status)>>)
    /\ messages' = flight[i].updatedMessages
    /\ isTyping' = FALSE
    /\ flight' = Landed(i)
    /\ UNCHANGED <<input, cpc, updatedMessages, assistantMessage, wire, sent,
                   parsed, preSend, fetched, aligned, rendered, clock,
                   limiterVars, relayVars>>

\* The fetch of the i-th send in flight answers 429.
SettleTooMany(i) ==
    /\ rendered = Snapshot
    /\ \E response \in Responses :
          /\ response.status = 429
          /\ rateLimit' = RateLimitFrom(response)
          /\ error' = Some(<<"Rate limited: ", response.body.error,
                             ". Try again later.">>)
    /\ messages' = flight[i].updatedMessages
    /\ isTyping' = FALSE
    /\ flight' = Landed(i)
    /\ UNCHANGED <<input, cpc, updatedMessages, assistantMessage, wire, sent,
                   parsed, preSend, fetched, aligned, rendered, clock,
                   limiterVars, relayVars>>

\* The fetch of the i-th send in flight answers 200 and its body is read to
\* the end, the events arriving whole.
SettleStreamed(i) ==
    /\ rendered = Snapshot
    /\ \E response \in Responses :
          /\ response.status = 200
          /\ rateLimit' = RateLimitFrom(response)
          /\ LET st == ProcessChunk([am |-> <<>>, msgs |-> messages, fin |-> FALSE,
                                     err |-> error, parsed |-> <<>>],
                                     Frames(response.events))
             IN  /\ messages' = st.msgs
                 /\ error' = st.err
    /\ isTyping' = FALSE
    /\ flight' = Landed(i)
    /\ UNCHANGED <<input, cpc, updatedMessages, assistantMessage, wire, sent,
                   parsed, preSend, fetched, aligned, rendered, clock,
                   limiterVars, relayVars>>

NextSends ==
    \/ Render
    \/ TypeInput
    \/ SendAction
    \/ \E i \in DOMAIN flight : SettleFailed(i)
    \/ \E i \in DOMAIN flight : SettleTooMany(i)
    \/ \E i \in DOMAIN flight : SettleStreamed(i)

ResetTimes == {NullDate, 46000, 60000, 91000, 3601000}
ClockTimes == {0, 500, 1000, 46000, 91000, 100000}

InitCountdown ==
    /\ InitLimiter
    /\ InitRelay
    /\ messages = <<>>
    /\ input = <<>>
    /\ isTyping = FALSE
    /\ \E reset \in ResetTimes, remaining \in {0, 1} :
          rateLimit = [limit |-> 1, remaining |-> remaining, reset |-> reset,
                       isLimited |-> FALSE]
    /\ error = Null
    /\ cpc = "idle"
    /\ updatedMessages = <<>>
    /\ assistantMessage = <<>>
    /\ wire = <<>>
    /\ sent = <<>>
    /\ parsed = <<>>
    /\ preSend = <<>>
    /\ fetched = "none"
    /\ aligned = TRUE
    /\ InitUi

\* Time passes in the browser.
ClockTick ==
    /\ \E t \in ClockTimes : t > clock /\ clock' = t
    /\ UNCHANGED <<rendered, flight, limiterVars, relayVars, clientVars>>

NextCountdown ==
    \/ ClockTick
    \/ Render

\* The whole seconds from time t to reset, counting a started second, and
\* none once reset has passed.
SecondsLeft(reset, t) ==
    IF reset <= t THEN 0
    ELSE CHOOSE n \in 1..3601 : (n - 1) * 1000 < reset - t /\ reset - t <= n * 1000

\* C15: the countdown a render shows depends on the time of the render and
\* on the reset time only: its seconds are never below zero, 0 once the
\* reset time has passed, and n seconds read "<n>s" below 60 and
\* "<n div 60>m <n mod 60>s" from 60 on, so that 90 seconds read "1m 30s"
\* and 45 seconds "45s".
C15_CountdownText ==
    rendered.countdown # <<>> =>
        LET n == SecondsLeft(rendered.rateLimit.reset, rendered.at)
        IN  /\ n >= 0
            /\ n < 60 => rendered.countdown = <<ToString(n), "s">>
            /\ n >= 60 => rendered.countdown =
                              <<ToString(n \div 60), "m ", ToString(n % 60), "s">>
            /\ n = 90 => rendered.countdown = <<"1", "m ", "30", "s">>
            /\ n = 45 => rendered.countdown = <<"45", "s">>

\* C15 witness: a render one second into the session, with the reset 90
\* seconds ahead, shows "1m 30s".
C15_Witness ==
    /\ rendered.at = 1000
    /\ rendered.rateLimit.reset = 91000
    /\ rendered.countdown = <<"1", "m ", "30", "s">>

\* The rate-limit decision of the server for the request of the last send:
\* the first request of the window when it was answered 200, one over the
\* limit when it was answered 429.
ServerDecision ==
    LET store == [ip \in IPs |-> NoRecord]
        counted == Increment(store, "ip1", now, ChatWindowMs)
    IN  IF fetched = "429" THEN AdmissionAt(counted, "ip1", now)
        ELSE AdmissionAt(store, "ip1", now)

\* C16: after a response to POST /chat-stream, 200 or 429, rateLimit holds
\* the limit, the remaining count and the reset time of the server's
\* decision for that request, and isLimited is true exactly for a 429.
C16_StateIsServerDecision ==
    fetched \in {"200", "429"} =>
        /\ rateLimit.limit = ServerDecision.limit
        /\ rateLimit.remaining = ServerDecision.remaining
        /\ rateLimit.reset = ServerDecision.resetTime
        /\ rateLimit.isLimited <=> fetched = "429"

\* C17: a send that ended with a 429, with another status that is not ok,
\* or with a failure of the network while fetching or while reading the
\* stream has removed the placeholder assistant message, so that the
\* conversation is the one from before the send and the user message, has
\* set an error message, has turned isTyping off and is idle again.
C17_FailedSendRolledBack ==
    fetched \in {"429", "not ok", "rejected", "read failed"} =>
        /\ cpc = "idle"
        /\ messages = Append(preSend, UserMessage(<<"h", "i">>))
        /\ ~error.null /\ error.text # <<>>
        /\ ~isTyping

\* C17 witness: the network failed while the stream was read, after content
\* had been streamed into the placeholder, and the send was rolled back.
C17_Witness ==
    /\ fetched = "read failed"
    /\ assistantMessage # <<>>
    /\ cpc = "idle"
    /\ messages = Append(preSend, UserMessage(<<"h", "i">>))

(***************************************************************************)
(* The read loop on a stream that holds an event that does not parse.      *)
(***************************************************************************)
\* A stream with the malformed event put in after its first event.
WithMalformed(events) == <<Head(events), MalformedEvent>> \o Tail(events)

\* Streams of content events and a done or an error event, each with the
\* malformed event in it.
MalformedStreams ==
    {WithMalformed(events) :
        events \in {s \in Streams : \A i \in DOMAIN s : s[i].type # "finish_reason"}}

\* The send of the first message when its fetch has answered 200 with a
\* stream that holds a malformed event.
InitMalformed ==
    /\ InitLimiter
    /\ InitRelay
    /\ updatedMessages = <<UserMessage(<<"h", "i">>)>>
    /\ messages = Append(updatedMessages, AssistantMessage(<<>>))
    /\ input = <<>>
    /\ isTyping = TRUE
    /\ rateLimit = [limit |-> 1, remaining |-> 0, reset |-> 60000, isLimited |-> FALSE]
    /\ error = Null
    /\ cpc = "reading"
    /\ assistantMessage = <<>>
    /\ sent \in MalformedStreams
    /\ wire = Frames(sent)
    /\ parsed = <<>>
    /\ preSend = <<>>
    /\ fetched = "200"
    /\ aligned = TRUE
    /\ InitUi

NextMalformed ==
    \/ ReadChunk
    \/ ReadDone
    \/ ReadRejected

\* The lines of `lines` that JSON.parse takes.
RECURSIVE WellFormed(_)
WellFormed(lines) ==
    IF lines = <<>> THEN <<>>
    ELSE (IF JSONparse(Drop(Head(lines), Len(DataPrefix))) # SyntaxError
          THEN <<Head(lines)>> ELSE <<>>) \o WellFormed(Tail(lines))

RECURSIVE Without(_, _)
\* The events without those of one type.
Without(events, type) ==
    IF events = <<>> THEN <<>>
    ELSE (IF Head(events).type = type THEN <<>> ELSE <<Head(events)>>)
         \o Without(Tail(events), type)

\* C18: an event whose payload does not parse neither ends the reading of
\* the stream nor changes the state: a pass of the read loop over a chunk
\* leaves the state that the chunk without its lines that do not parse
\* would have left, the events before and after such a line handled alike.
C18_MalformedEventSkipped ==
    [][(cpc = "reading" /\ wire' # wire) =>
          [am |-> assistantMessage', msgs |-> messages', fin |-> cpc' = "idle",
           err |-> error', parsed |-> parsed']
          = ProcessLines([am |-> assistantMessage, msgs |-> messages,
                          fin |-> FALSE, err |-> error, parsed |-> parsed],
                         WellFormed(DataLines(Split(TextDecoderDecode(ChunkRead)))))]_vars

\* C18 witness: a stream with a content event before the malformed event
\* and events after it was read to its end in chunks of whole events, and
\* every event but the malformed one was handled, the content complete.
C18_Witness ==
    /\ StreamReceived
    /\ aligned
    /\ Len(sent) >= 4
    /\ sent[1].type = "content" /\ sent[3].type = "content"
    /\ parsed = Without(sent, "malformed")
    /\ assistantMessage = Concat(ValuesOf(sent, "content"))

(***************************************************************************)
(* The ChatBot component while time passes and the user keeps typing and   *)
(* sending.                                                                *)
(***************************************************************************)
NextClientClock ==
    \/ NextClient
    \/ ClockTick

\* The reset time the state holds has passed.
ResetPassed == rateLimit.reset # NullDate /\ clock > rateLimit.reset

\* C19: the blocking of sends by rateLimit comes to an end: from a state in
\* which sending is blocked by isLimited or by remaining 0 and whose reset
\* time has passed, the state comes to let a send through again, with no
\* reload of the page and no other response.
C19_BlockingEnds == (IsRateLimited /\ ResetPassed) ~> ~IsRateLimited

Init == InitLimiter /\ InitRelay /\ InitClient /\ InitUi

SpecLimiter == Init /\ [][NextLimiter]_vars

SpecStatus == Init /\ [][NextStatus]_vars

SpecRelay == Init /\ [][NextRelay]_vars

SpecClient == Init /\ [][NextClient]_vars

SpecSends == Init /\ [][NextSends]_vars

SpecCountdown == InitCountdown /\ [][NextCountdown]_vars

SpecMalformed == InitMalformed /\ [][NextMalformed]_vars

\* The user who has something to send goes on typing and sending, the
\* browser's clock goes on, and a fetch and a read come to an end.
SpecClientLive ==
    /\ Init
    /\ [][NextClientClock]_vars
    /\ WF_vars(SetInput)
    /\ WF_vars(SendMessage)
    /\ WF_vars(ClockTick)
    /\ WF_vars(FetchedOk \/ FetchedTooMany \/ FetchedNotOk \/ FetchRejected)
    /\ WF_vars(ReadChunk \/ ReadDone)

====
